---- MODULE Spec2Model ----
(***************************************************************************)
(* Model of app/components/VersionStat.vue of npm-version-stat: the        *)
(* reactive state, the computed formattedVersionsData (filter, rank,       *)
(* cumulative downloads, threshold marking), the computed                  *)
(* minVersionFor90Threshold (per-major summary) and fetchPackageData.      *)
(***************************************************************************)
EXTENDS Integers, Sequences, FiniteSets, Bags, TLC

\* ------------------------------------------------------------------ bounds

\* Largest number of versions in a per-version download response whose
\* versions and counts are enumerated (LongResponse has the long ones).
MaxVersions == 3

\* Number of fetchPackageData invocations that may be in flight at once.
MaxRuns == 2

\* ------------------------------------------------------- input universes

\* Version strings that occur as keys of a per-version download response:
\* a release and a prerelease of one major line, a release of another, and
\* two strings that are no semantic versions.
VersionStrings ==
    {"3.0.0", "3.0.0-beta.1", "2.9.0", "not-a-version", "latest"}

\* Version strings for the classification of versions: version 1.0.0 with
\* each keyword as first prerelease identifier, with an identifier that
\* holds two keywords, with one that holds none, with a numeric first
\* identifier, with a keyword in second place, and two strings that are no
\* semantic versions.
ClassifyVersions ==
    {"1.0.0", "1.0.0-alpha.1", "3.0.0-beta.1", "1.0.0-alphabeta", "1.0.0-rc.1",
     "1.0.0-canary", "1.0.0-next", "1.0.0-dev", "1.0.0-snapshot", "1.0.0-pre",
     "1.0.0-0", "1.0.0-1.alpha", "1.0.0-pre.beta", "2.9.0", "1.2",
     "not-a-version"}

\* Download counts of one response: either round figures (900 of 1000 is
\* exactly 90 %) or small odd ones (27 + 63 = 90, where 90 * (70 / 100) is
\* not 63 in double arithmetic).
RoundDownloads == {0, 100, 900}
OddDownloads == {27, 63}

\* Positions of the threshold slider that the model moves it to
\* (the slider runs from 50 to 100 in steps of 5; 90 is the initial value).
Thresholds == {50, 70, 90, 100}

\* The number of versions the README says the ranked list shows.
TopLimit == 50

\* The versions 4.0.1, 4.0.2, ... of a package with many releases.
LongestResponse == TopLimit + 5
PatchVersion(i) == "4.0." \o ToString(i)
PatchVersions == {PatchVersion(i) : i \in 1..LongestResponse}

\* ------------------------------------------------------------------ semver

\* The value of semver.parse for a string that is no semantic version.
NullVersion == [major |-> -1, minor |-> -1, patch |-> -1, prerelease |-> <<>>]

\* One prerelease identifier: semver keeps numeric identifiers as numbers
\* and the others as strings.
StrId(s) == [isNum |-> FALSE, num |-> 0, str |-> s]
NumId(n) == [isNum |-> TRUE, num |-> n, str |-> ""]

\* The SemVer object of version 1.0.0 with the given prerelease identifiers.
Pre100(prerelease) ==
    [major |-> 1, minor |-> 0, patch |-> 0, prerelease |-> prerelease]

\* semver.parse(version) on the version strings of the model. A string of
\* digits among the prerelease identifiers is parsed to a number; "1.2",
\* "latest" and every other string that is not major.minor.patch give null.
semverParse(version) ==
    CASE version = "3.0.0" ->
           [major |-> 3, minor |-> 0, patch |-> 0, prerelease |-> <<>>]
      [] version = "3.0.0-beta.1" ->
           [major |-> 3, minor |-> 0, patch |-> 0,
            prerelease |-> <<StrId("beta"), NumId(1)>>]
      [] version = "2.9.0" ->
           [major |-> 2, minor |-> 9, patch |-> 0, prerelease |-> <<>>]
      [] version = "2.8.0" ->
           [major |-> 2, minor |-> 8, patch |-> 0, prerelease |-> <<>>]
      [] version \in PatchVersions ->
           [major |-> 4, minor |-> 0,
            patch |-> CHOOSE i \in 1..LongestResponse : PatchVersion(i) = version,
            prerelease |-> <<>>]
      [] version = "1.0.0" -> Pre100(<<>>)
      [] version = "1.0.0-alpha.1" -> Pre100(<<StrId("alpha"), NumId(1)>>)
      [] version = "1.0.0-alphabeta" -> Pre100(<<StrId("alphabeta")>>)
      [] version = "1.0.0-rc.1" -> Pre100(<<StrId("rc"), NumId(1)>>)
      [] version = "1.0.0-canary" -> Pre100(<<StrId("canary")>>)
      [] version = "1.0.0-next" -> Pre100(<<StrId("next")>>)
      [] version = "1.0.0-dev" -> Pre100(<<StrId("dev")>>)
      [] version = "1.0.0-snapshot" -> Pre100(<<StrId("snapshot")>>)
      [] version = "1.0.0-pre" -> Pre100(<<StrId("pre")>>)
      [] version = "1.0.0-0" -> Pre100(<<NumId(0)>>)
      [] version = "1.0.0-1.alpha" -> Pre100(<<NumId(1), StrId("alpha")>>)
      [] version = "1.0.0-pre.beta" -> Pre100(<<StrId("pre"), StrId("beta")>>)
      [] OTHER -> NullVersion

IsNull(parsed) == parsed.major = -1

\* Sign of a difference.
Sign(n) == IF n < 0 THEN -1 ELSE IF n > 0 THEN 1 ELSE 0

\* Position of a string in code-unit order, for the prerelease identifiers
\* of the model.
IdRank(s) ==
    CASE s = "alpha" -> 1
      [] s = "alphabeta" -> 2
      [] s = "beta" -> 3
      [] s = "canary" -> 4
      [] s = "dev" -> 5
      [] s = "next" -> 6
      [] s = "pre" -> 7
      [] s = "rc" -> 8
      [] s = "snapshot" -> 9
      [] OTHER -> 10

\* semver's compareIdentifiers: numbers before strings, numbers by value,
\* strings by code unit.
compareIdentifiers(a, b) ==
    IF a.isNum /\ b.isNum THEN Sign(a.num - b.num)
    ELSE IF a.isNum THEN -1
    ELSE IF b.isNum THEN 1
    ELSE Sign(IdRank(a.str) - IdRank(b.str))

RECURSIVE comparePre(_, _, _)
\* semver's SemVer.comparePre from identifier i on: a version without
\* prerelease is greater than one with; a longer list wins over its prefix.
comparePre(p, q, i) ==
    IF Len(p) = 0 /\ Len(q) = 0 THEN 0
    ELSE IF Len(p) = 0 THEN 1
    ELSE IF Len(q) = 0 THEN -1
    ELSE IF i > Len(p) /\ i > Len(q) THEN 0
    ELSE IF i > Len(q) THEN 1
    ELSE IF i > Len(p) THEN -1
    ELSE IF compareIdentifiers(p[i], q[i]) # 0 THEN compareIdentifiers(p[i], q[i])
    ELSE comparePre(p, q, i + 1)

\* semver.compare(a, b) of two parsable version strings: -1, 0 or 1.
semverCompare(a, b) ==
    LET pa == semverParse(a)
        pb == semverParse(b)
    IN  IF pa.major # pb.major THEN Sign(pa.major - pb.major)
        ELSE IF pa.minor # pb.minor THEN Sign(pa.minor - pb.minor)
        ELSE IF pa.patch # pb.patch THEN Sign(pa.patch - pb.patch)
        ELSE comparePre(pa.prerelease, pb.prerelease, 1)

\* Position of a version string in the collation order of
\* String.prototype.localeCompare (digits before letters, a string after
\* its own prefix).
LocaleRank(version) ==
    CASE version = "1.2" -> 0
      [] version = "2.8.0" -> 1
      [] version = "2.9.0" -> 2
      [] version = "3.0.0" -> 3
      [] version = "3.0.0-beta.1" -> 4
      [] version = "latest" -> 5
      [] OTHER -> 6

\* a.localeCompare(b)
localeCompare(a, b) == Sign(LocaleRank(a) - LocaleRank(b))

\* The characters of the prerelease identifiers and keywords of the model.
Chars(str) ==
    CASE str = "alpha" -> <<"a", "l", "p", "h", "a">>
      [] str = "beta" -> <<"b", "e", "t", "a">>
      [] str = "rc" -> <<"r", "c">>
      [] str = "canary" -> <<"c", "a", "n", "a", "r", "y">>
      [] str = "next" -> <<"n", "e", "x", "t">>
      [] str = "dev" -> <<"d", "e", "v">>
      [] str = "snapshot" -> <<"s", "n", "a", "p", "s", "h", "o", "t">>
      [] str = "alphabeta" -> <<"a", "l", "p", "h", "a", "b", "e", "t", "a">>
      [] str = "pre" -> <<"p", "r", "e">>
      [] OTHER -> <<>>

\* String.prototype.includes: whether keyword occurs in str as a run of
\* consecutive characters.
Includes(str, keyword) ==
    LET s == Chars(str)
        k == Chars(keyword)
    IN  \E i \in 1..(Len(s) - Len(k) + 1) : SubSeq(s, i, i + Len(k) - 1) = k

\* Mutant of parseVersionTag: 'beta' is looked for before 'alpha'.
parseVersionTagBetaFirst(version) ==
    LET parsed == semverParse(version)
    IN  IF IsNull(parsed) THEN "invalid"
        ELSE IF Len(parsed.prerelease) > 0
        THEN LET prerelease == parsed.prerelease[1]
             IN  IF ~prerelease.isNum
                 THEN IF Includes(prerelease.str, "beta") THEN "beta"
                      ELSE IF Includes(prerelease.str, "alpha") THEN "alpha"
                      ELSE IF Includes(prerelease.str, "rc") THEN "rc"
                      ELSE IF Includes(prerelease.str, "canary") THEN "canary"
                      ELSE IF Includes(prerelease.str, "next") THEN "next"
                      ELSE IF Includes(prerelease.str, "dev") THEN "dev"
                      ELSE IF Includes(prerelease.str, "snapshot") THEN "snapshot"
                      ELSE "prerelease"
                 ELSE "prerelease"
        ELSE "stable"

\* parseVersionTag(version): the release tag of a version string.
parseVersionTag(version) ==
    LET parsed == semverParse(version)
    IN  IF IsNull(parsed) THEN "invalid"
        ELSE IF Len(parsed.prerelease) > 0
        THEN LET prerelease == parsed.prerelease[1]
             IN  IF ~prerelease.isNum
                 THEN IF Includes(prerelease.str, "alpha") THEN "alpha"
                      ELSE IF Includes(prerelease.str, "beta") THEN "beta"
                      ELSE IF Includes(prerelease.str, "rc") THEN "rc"
                      ELSE IF Includes(prerelease.str, "canary") THEN "canary"
                      ELSE IF Includes(prerelease.str, "next") THEN "next"
                      ELSE IF Includes(prerelease.str, "dev") THEN "dev"
                      ELSE IF Includes(prerelease.str, "snapshot") THEN "snapshot"
                      ELSE "prerelease"
                 ELSE "prerelease"
        ELSE "stable"

\* `v${parsed.major}` for the majors of the model.
MajorLabel(n) ==
    CASE n = 1 -> "v1"
      [] n = 2 -> "v2"
      [] n = 3 -> "v3"
      [] n = 4 -> "v4"
      [] OTHER -> "v?"

\* getMajorVersion(version): the major-line label of a version string.
getMajorVersion(version) ==
    LET parsed == semverParse(version)
    IN  IF IsNull(parsed) THEN "unknown" ELSE MajorLabel(parsed.major)

\* Number.parseInt(major.replace('v', ''), 10); NaN is modelled as -1.
NaN == -1
parseIntMajor(major) ==
    CASE major = "v1" -> 1
      [] major = "v2" -> 2
      [] major = "v3" -> 3
      [] major = "v4" -> 4
      [] OTHER -> NaN

\* Tags and major labels the filter check boxes can select.
TagUniverse == {parseVersionTag(v) : v \in VersionStrings \cup ClassifyVersions}
MajorUniverse ==
    {getMajorVersion(v) : v \in VersionStrings \cup ClassifyVersions \cup PatchVersions}
        \ {"unknown"}

\* ------------------------------------------------------------------- state

VARIABLES
    versionsData,           \* state.versionsData: the records being ranked
    selectedTags,           \* state.selectedTags
    selectedMajorVersions,  \* state.selectedMajorVersions
    threshold,              \* state.threshold
    isLoading,              \* state.isLoading
    error,                  \* state.error
    packageData,            \* state.packageData ("null" or a package name)
    formPackageName,        \* form.packageName
    runs                    \* the invocations of fetchPackageData in flight

vars == <<versionsData, selectedTags, selectedMajorVersions, threshold,
          isLoading, error, packageData, formPackageName, runs>>

filterVars == <<selectedTags, selectedMajorVersions, threshold>>
fetchVars == <<isLoading, error, packageData, formPackageName, runs>>

\* ------------------------------------------------- records of versionsData

\* The record fetchPackageData builds for one [version, downloads] entry
\* (isLatest and publishedDate are display-only and left out).
\* `downloads as number` is a cast of the type checker only: the value of
\* the response is stored as it is, a number, null or a string (kind), of
\* which downloads is the numeric value that arithmetic converts it to.
VersionData(entry) ==
    [version |-> entry.version,
     downloads |-> entry.downloads,
     kind |-> entry.kind,
     tag |-> parseVersionTag(entry.version),
     parsedVersion |-> semverParse(entry.version)]

\* Mutant of sortByDownloads: the array is left in the order of the response.
sortByDownloadsSkipped(array) == array

\* array.sort((a, b) => b.downloads - a.downloads): the comparator is a
\* consistent one, so the result is the one stable order it defines: an
\* element stands after those the comparator puts before it and after the
\* earlier ones it ties with.
sortByDownloads(array) ==
    LET n == Len(array)
        Before(j, i) ==
            \/ array[i].downloads - array[j].downloads < 0
            \/ array[i].downloads - array[j].downloads = 0 /\ j < i
        position == [i \in 1..n |-> 1 + Cardinality({j \in 1..n : Before(j, i)})]
    IN  [p \in 1..n |-> array[CHOOSE i \in 1..n : position[i] = p]]

MapVersionData(entries) == [i \in 1..Len(entries) |-> VersionData(entries[i])]

\* Object.entries(versionDownloads).map(...).sort(...) of fetchPackageData.
processVersions(entries) == sortByDownloads(MapVersionData(entries))

\* ---------------------------------------------------- formattedVersionsData

\* Mutant of filterVersions: the major-version filter is not applied.
filterVersionsTagsOnly(data, tags, majors) ==
    IF tags # {}
    THEN SelectSeq(data, LAMBDA item : item.tag \in tags)
    ELSE data

\* The two filter steps at the start of formattedVersionsData.
filterVersions(data, tags, majors) ==
    LET byTag == IF tags # {}
                 THEN SelectSeq(data, LAMBDA item : item.tag \in tags)
                 ELSE data
    IN  IF majors # {}
        THEN SelectSeq(byTag, LAMBDA item : getMajorVersion(item.version) \in majors)
        ELSE byTag

filteredData == filterVersions(versionsData, selectedTags, selectedMajorVersions)

\* A value of the running sums: a number, or the string of decimal digits
\* that `+` makes of it once an operand is a string (n is then the number
\* the string converts to).
JsNumber(n) == [n |-> n, isString |-> FALSE]
JsString(n) == [n |-> n, isString |-> TRUE]

RECURSIVE Pow10Digits(_)
\* 10 to the number of decimal digits of n (n >= 0).
Pow10Digits(n) == IF n < 10 THEN 10 ELSE 10 * Pow10Digits(n \div 10)

\* sum + item.downloads: addition of numbers (null converts to 0), and
\* concatenation of the decimal digits as soon as either side is a string.
jsPlus(sum, item) ==
    IF sum.isString \/ item.kind = "string"
    THEN JsString(sum.n * Pow10Digits(item.downloads) + item.downloads)
    ELSE JsNumber(sum.n + item.downloads)

RECURSIVE reduceRange(_, _, _, _)
\* The reduce callback applied to data[first], ..., data[last] in turn,
\* starting from sum. The range is halved, and the sum of the first half
\* is a value before the second half starts, to keep the evaluation
\* shallow.
reduceRange(data, first, last, sum) ==
    IF first > last THEN sum
    ELSE IF first = last THEN jsPlus(sum, data[first])
    ELSE LET middle == (first + last) \div 2
             left == reduceRange(data, first, middle, sum)
         IN  CASE left.isString \in BOOLEAN ->
                  reduceRange(data, middle + 1, last, left)

\* data.reduce((sum, item) => sum + item.downloads, sum)
reduceDownloads(data, sum) == reduceRange(data, 1, Len(data), sum)

RECURSIVE Pow2Floor(_)
\* The largest power of two that is at most n (n >= 1).
Pow2Floor(n) == IF n < 2 THEN 1 ELSE 2 * Pow2Floor(n \div 2)

\* Whether the double total * (percent / 100) is less than the exact
\* product total * percent / 100. Of the slider's steps only 70 / 100 is a
\* double below the exact quotient by enough (0.4 units in the last place)
\* to pull an integral product under itself: it does so when the product
\* lies in the upper quarter of its binade, as 90 * 0.7 = 62.99999999999999.
RoundsBelow(total, percent) ==
    /\ percent = 70
    /\ total > 0
    /\ (7 * total) % 10 = 0
    /\ 2 * total > 5 * Pow2Floor((7 * total) \div 10)

\* Mutant of LeqThreshold90: a strict comparison.
LeqThreshold90Strict(cumulativeDownloads, totalDownloads, percent) ==
    cumulativeDownloads * 100 < totalDownloads * percent

\* cumulativeDownloads <= threshold90, with
\* threshold90 = totalDownloads * (state.threshold / 100) in doubles.
LeqThreshold90(cumulativeDownloads, totalDownloads, percent) ==
    IF cumulativeDownloads * 100 = totalDownloads * percent
    THEN ~RoundsBelow(totalDownloads, percent)
    ELSE cumulativeDownloads * 100 < totalDownloads * percent

\* The branch of the map callback that decides isWithin90Threshold:
\* "accumulation" (cumulativeDownloads <= threshold90), "boundary" (the
\* first entry over threshold90) or "none".
thresholdBranch(cumulativeDownloads, totalDownloads, percent, foundThresholdBoundary) ==
    IF LeqThreshold90(cumulativeDownloads, totalDownloads, percent)
    THEN "accumulation"
    ELSE IF ~foundThresholdBoundary
            /\ ~LeqThreshold90(cumulativeDownloads, totalDownloads, percent)
         THEN "boundary"
         ELSE "none"

\* Mutant of accumulate: the running total is overwritten, not added to.
accumulateOverwrite(cumulativeDownloads, item) == JsNumber(item.downloads)

\* cumulativeDownloads += item.downloads
accumulate(cumulativeDownloads, item) == jsPlus(cumulativeDownloads, item)

\* The map callback on entry index, with its two captured variables
\* cumulativeDownloads and foundThresholdBoundary in captured; the result
\* is the entry it returns and the captured variables afterwards. The
\* comparisons with threshold90 convert a string to its number, and an
\* entry keeps the number of its cumulativeDownloads.
mapCallback(item, index, totalDownloads, percent, captured) ==
    LET cumulative == accumulate(captured.cumulativeDownloads, item)
        branch == thresholdBranch(cumulative.n, totalDownloads, percent,
                                  captured.foundThresholdBoundary)
    IN  [mapped |-> <<[version |-> item.version,
                       downloads |-> item.downloads,
                       kind |-> item.kind,
                       tag |-> item.tag,
                       parsedVersion |-> item.parsedVersion,
                       rank |-> index,
                       cumulativeDownloads |-> cumulative.n,
                       isWithin90Threshold |-> branch # "none",
                       branch |-> branch]>>,
         cumulativeDownloads |-> cumulative,
         foundThresholdBoundary |->
             captured.foundThresholdBoundary \/ branch = "boundary"]

RECURSIVE mapRange(_, _, _, _, _, _)
\* The map callback applied to data[first], ..., data[last] in turn. The
\* range is halved, and the first half is mapped before the second half
\* starts, to keep the evaluation shallow.
mapRange(data, first, last, totalDownloads, percent, captured) ==
    IF first > last
    THEN [mapped |-> <<>>,
          cumulativeDownloads |-> captured.cumulativeDownloads,
          foundThresholdBoundary |-> captured.foundThresholdBoundary]
    ELSE IF first = last
    THEN mapCallback(data[first], first, totalDownloads, percent, captured)
    ELSE LET middle == (first + last) \div 2
             left == mapRange(data, first, middle, totalDownloads, percent, captured)
             right == mapRange(data, middle + 1, last, totalDownloads, percent, left)
         IN  CASE left.foundThresholdBoundary \in BOOLEAN ->
                  [mapped |-> left.mapped \o right.mapped,
                   cumulativeDownloads |-> right.cumulativeDownloads,
                   foundThresholdBoundary |-> right.foundThresholdBoundary]

\* filteredData.map(...) with cumulativeDownloads and
\* foundThresholdBoundary as they stand before the first entry.
mapVersions(data, totalDownloads, percent, cumulativeDownloads, foundThresholdBoundary) ==
    mapRange(data, 1, Len(data), totalDownloads, percent,
             [mapped |-> <<>>,
              cumulativeDownloads |-> cumulativeDownloads,
              foundThresholdBoundary |-> foundThresholdBoundary]).mapped

\* The computed formattedVersionsData for given state.
formatVersions(data, tags, majors, percent) ==
    LET filtered == filterVersions(data, tags, majors)
        totalDownloads == reduceDownloads(filtered, JsNumber(0)).n
    IN  mapVersions(filtered, totalDownloads, percent, JsNumber(0), FALSE)

formattedVersionsData ==
    formatVersions(versionsData, selectedTags, selectedMajorVersions, threshold)

filteredTotalDownloads == reduceDownloads(filteredData, JsNumber(0)).n

\* ------------------------------------------- percentages, in IEEE doubles

\* A positive double is [zero |-> FALSE, bits, exp]: bits are the 53 bits
\* of its significand, most significant (always 1) first, and its value is
\* the binary number bits times 2^exp. DoubleZero is +0.
MantissaBits == 53
DoubleZero == [zero |-> TRUE, bits |-> <<>>, exp |-> 0]

Zeros(n) == [i \in 1..n |-> 0]

\* The sum of two binary numbers, the shorter one padded on the left: bit
\* i receives a carry when some lower position j generates one (both bits
\* 1) and every position between them passes it on (exactly one bit 1).
AddBits(a, b) ==
    LET n == IF Len(a) > Len(b) THEN Len(a) ELSE Len(b)
        x == Zeros(n - Len(a)) \o a
        y == Zeros(n - Len(b)) \o b
        carry == [i \in 0..n |->
                     IF \E j \in (i + 1)..n :
                            /\ x[j] + y[j] = 2
                            /\ \A k \in (i + 1)..(j - 1) : x[k] + y[k] = 1
                     THEN 1 ELSE 0]
        sum == [i \in 1..n |-> (x[i] + y[i] + carry[i]) % 2]
    IN  IF carry[0] = 1 THEN <<1>> \o sum ELSE sum

\* Round to nearest, ties to even: the binary number bits (leading bit 1)
\* times 2^exp as a double.
RoundToDouble(bits, exp) ==
    IF Len(bits) <= MantissaBits
    THEN [zero |-> FALSE,
          bits |-> bits \o Zeros(MantissaBits - Len(bits)),
          exp |-> exp - (MantissaBits - Len(bits))]
    ELSE LET kept == SubSeq(bits, 1, MantissaBits)
             rest == SubSeq(bits, MantissaBits + 1, Len(bits))
             sticky == \E i \in 2..Len(rest) : rest[i] = 1
             up == rest[1] = 1 /\ (sticky \/ kept[MantissaBits] = 1)
             more == IF up THEN AddBits(kept, <<1>>) ELSE kept
         IN  [zero |-> FALSE,
              bits |-> SubSeq(more, 1, MantissaBits),
              exp |-> exp + Len(rest) + (Len(more) - MantissaBits)]

RECURSIVE Pow2Mod(_, _)
\* 2^k modulo b, by squaring.
Pow2Mod(k, b) ==
    IF k = 0 THEN 1 % b
    ELSE LET half == Pow2Mod(k \div 2, b)
         IN  (half * half * (IF k % 2 = 1 THEN 2 ELSE 1)) % b

\* a / b in doubles, for integers 0 <= a <= b, b > 0: with s the shift that
\* brings a * 2^s into [b, 2b), the quotient is 1 and the bits of long
\* division, of which bit k is 1 when twice the remainder before it reaches
\* b; one further bit and the last remainder decide the rounding.
jsDivide(a, b) ==
    IF a = 0 THEN DoubleZero
    ELSE LET s == CHOOSE n \in 0..30 : a * 2^n >= b /\ (n = 0 \/ a * 2^(n - 1) < b)
             first == a * 2^s - b
             remainder == [k \in 0..(MantissaBits + 1) |-> (first * Pow2Mod(k, b)) % b]
             quotient == [k \in 1..MantissaBits |->
                             IF 2 * remainder[k - 1] >= b THEN 1 ELSE 0]
             sticky == IF remainder[MantissaBits] # 0 THEN 1 ELSE 0
         IN  RoundToDouble(<<1>> \o quotient \o <<sticky>>,
                           0 - s - MantissaBits - 1)

\* Mutant of jsTimes100: the fraction is not scaled to a percentage.
jsTimes100Skipped(x) == x

\* x * 100 in doubles: 100 x = 64 x + 32 x + 4 x, rounded once.
jsTimes100(x) ==
    IF x.zero THEN DoubleZero
    ELSE RoundToDouble(AddBits(AddBits(x.bits \o Zeros(6), x.bits \o Zeros(5)),
                               x.bits \o Zeros(2)),
                       x.exp)

\* x + y in doubles.
jsAddDouble(x, y) ==
    IF x.zero THEN y
    ELSE IF y.zero THEN x
    ELSE LET exp == IF x.exp < y.exp THEN x.exp ELSE y.exp
         IN  RoundToDouble(AddBits(x.bits \o Zeros(x.exp - exp),
                                   y.bits \o Zeros(y.exp - exp)),
                           exp)

\* The double 100.
DoubleHundred == RoundToDouble(<<1, 1, 0, 0, 1, 0, 0>>, 0)

\* a <= b for binary numbers of equal length.
BitsLeq(a, b) ==
    \/ a = b
    \/ \E i \in 1..Len(a) : a[i] < b[i] /\ \A k \in 1..(i - 1) : a[k] = b[k]

\* x <= y for doubles.
DoubleLeq(x, y) ==
    IF x.zero THEN TRUE
    ELSE IF y.zero THEN FALSE
    ELSE IF x.exp # y.exp THEN x.exp < y.exp
    ELSE BitsLeq(x.bits, y.bits)

\* percentage of the map callback:
\* totalDownloads > 0 ? (item.downloads / totalDownloads) * 100 : 0
percentage(downloads, totalDownloads) ==
    IF totalDownloads > 0
    THEN jsTimes100(jsDivide(downloads, totalDownloads))
    ELSE DoubleZero

\* The percentage and cumulativePercentage of the entries of a formatted
\* list whose filtered set has the given total.
percentagesOf(formatted, totalDownloads) ==
    [i \in 1..Len(formatted) |->
        [percentage |-> percentage(formatted[i].downloads, totalDownloads),
         cumulativePercentage |->
             percentage(formatted[i].cumulativeDownloads, totalDownloads)]]

\* ------------------------------------------------ minVersionFor90Threshold

\* formattedVersionsData.value.filter(item => item.isWithin90Threshold)
within90Of(formatted) == SelectSeq(formatted, LAMBDA item : item.isWithin90Threshold)

within90Items == within90Of(formattedVersionsData)

RECURSIVE majorKeys(_, _)
\* Object.keys of the versionsByMajor accumulator: the major labels of the
\* items in order of first occurrence.
majorKeys(items, keys) ==
    IF items = <<>> THEN keys
    ELSE LET major == getMajorVersion(Head(items).version)
         IN  majorKeys(Tail(items),
                       IF \E k \in 1..Len(keys) : keys[k] = major
                       THEN keys ELSE Append(keys, major))

\* versionsByMajor[major]: the items of one major line, in rank order.
versionsByMajor(items, major) ==
    SelectSeq(items, LAMBDA item : getMajorVersion(item.version) = major)

\* Mutant of compareVersions: the strings are compared, parsed or not.
compareVersionsAsStrings(a, b) == localeCompare(a.version, b.version)

\* The comparator of versions.sort(...): semver precedence when both
\* versions parsed, localeCompare of the strings otherwise.
compareVersions(a, b) ==
    IF ~IsNull(a.parsedVersion) /\ ~IsNull(b.parsedVersion)
    THEN semverCompare(a.version, b.version)
    ELSE localeCompare(a.version, b.version)

RECURSIVE InsertByVersion(_, _, _)
InsertByVersion(s, x, k) ==
    IF k > Len(s) THEN Append(s, x)
    ELSE IF compareVersions(x, s[k]) < 0
         THEN SubSeq(s, 1, k - 1) \o <<x>> \o SubSeq(s, k, Len(s))
         ELSE InsertByVersion(s, x, k + 1)

RECURSIVE SortVersionsStep(_, _)
SortVersionsStep(done, rest) ==
    IF rest = <<>> THEN done
    ELSE SortVersionsStep(InsertByVersion(done, Head(rest), 1), Tail(rest))

\* versions.sort(compareVersions): every group holds either parsed versions
\* only or unparsable ones only, so the comparator is a consistent one and
\* the result is the stable ascending order.
sortVersions(versions) == SortVersionsStep(<<>>, versions)

\* One element of minVersionsByMajor before the outer sort.
minVersionEntry(items, major) ==
    LET versions == versionsByMajor(items, major)
    IN  [major |-> major,
         minVersion |-> sortVersions(versions)[1],
         totalVersionsInMajor |-> Len(versions)]

\* Object.entries(versionsByMajor).map(...)
mapMajors(items) ==
    LET keys == majorKeys(items, <<>>)
    IN  [k \in 1..Len(keys) |-> minVersionEntry(items, keys[k])]

\* The comparator of the outer sort: numB - numA, which is NaN when either
\* label is "unknown"; Array.prototype.sort reads a NaN result as +0.
compareMajors(a, b) ==
    LET numA == parseIntMajor(a.major)
        numB == parseIntMajor(b.major)
    IN  IF numA = NaN \/ numB = NaN THEN 0 ELSE numB - numA

RECURSIVE InsertByMajor(_, _, _)
\* Move x from position k + 1 of the sorted array s to the left past every
\* element it compares less than.
InsertByMajor(s, x, k) ==
    IF k = 0 THEN <<x>> \o s
    ELSE IF compareMajors(x, s[k]) < 0
         THEN InsertByMajor(s, x, k - 1)
         ELSE SubSeq(s, 1, k) \o <<x>> \o SubSeq(s, k + 1, Len(s))

RECURSIVE insertionSortMajors(_, _)
\* Insertion sort: each element in turn is inserted from the right into the
\* sorted part before it.
insertionSortMajors(done, rest) ==
    IF rest = <<>> THEN done
    ELSE insertionSortMajors(InsertByMajor(done, Head(rest), Len(done)), Tail(rest))

RECURSIVE mergeMajors(_, _)
\* Merge of two sorted runs: the head of the right run goes first only when
\* it compares less than the head of the left run.
mergeMajors(left, right) ==
    IF right = <<>> THEN left
    ELSE IF left = <<>> THEN right
    ELSE IF compareMajors(Head(right), Head(left)) < 0
         THEN <<Head(right)>> \o mergeMajors(left, Tail(right))
         ELSE <<Head(left)>> \o mergeMajors(Tail(left), right)

Min(a, b) == IF a < b THEN a ELSE b

RECURSIVE mergePassMajors(_, _, _)
\* One pass of bottom-up merge sort: the runs of the given width are merged
\* in pairs, from index srcIndex on.
mergePassMajors(src, width, srcIndex) ==
    IF srcIndex > Len(src) THEN <<>>
    ELSE LET leftEnd == Min(srcIndex + width - 1, Len(src))
             rightEnd == Min(srcIndex + 2 * width - 1, Len(src))
         IN  mergeMajors(SubSeq(src, srcIndex, leftEnd),
                         SubSeq(src, leftEnd + 1, rightEnd))
             \o mergePassMajors(src, width, srcIndex + 2 * width)

RECURSIVE mergeSortMajors(_, _)
mergeSortMajors(array, width) ==
    IF width >= Len(array) THEN array
    ELSE mergeSortMajors(mergePassMajors(array, width, 1), 2 * width)

\* The arrays array.sort(compareMajors) can leave. With 'unknown' next to
\* two numeric majors compareMajors is not a consistent comparator, and
\* ECMA-262 then leaves the order to the implementation: the outcomes are
\* those of the engines' stable sorts, insertion from the right (how V8 and
\* SpiderMonkey sort an array this short) and bottom-up merge
\* (JavaScriptCore). With a consistent comparator the two agree.
sortMajors(array) ==
    {insertionSortMajors(<<>>, array), mergeSortMajors(array, 1)}

\* The values minVersionFor90Threshold.items can take for given
\* formattedVersionsData; {} stands for minVersionFor90Threshold = null.
summaryItems(formatted) ==
    LET within == within90Of(formatted)
    IN  IF Len(within) = 0 THEN {} ELSE sortMajors(mapMajors(within))

minVersionFor90Threshold == summaryItems(formattedVersionsData)

\* isLast90ThresholdVersion(row) for the row of a given rank.
isLast90ThresholdVersion(rank) ==
    IF Len(within90Items) = 0 THEN FALSE
    ELSE rank = within90Items[Len(within90Items)].rank

\* ------------------------------------------------------------ the registry

\* Values of form.packageName: blank, two published packages and a name the
\* registry does not know.
PackageNames == {"", "pkgA", "pkgB", "nope"}
Published == {"pkgA", "pkgB"}

\* One [version, downloads] pair of a response whose count is a number.
Entry(version, downloads) ==
    [version |-> version, downloads |-> downloads, kind |-> "number"]

\* A pair whose count is no number: null (kind "null", converts to 0) or a
\* string of decimal digits (kind "string", converts to downloads).
MalformedEntry(version, kind, downloads) ==
    [version |-> version, downloads |-> downloads, kind |-> kind]

\* The per-version downloads the registry reports for a published package,
\* in the order of the response's keys.
versionDownloadsOf(name) ==
    IF name = "pkgA"
    THEN <<Entry("2.8.0", 100), Entry("2.9.0", 200), Entry("3.0.0", 700)>>
    ELSE <<Entry("not-a-version", 27), Entry("3.0.0-beta.1", 63),
           Entry("3.0.0", 0)>>

\* state.packageData: null, or the fields set from a registry document, of
\* which the model keeps the name (totalDownloads, the one field taken from
\* the getDownloadStats answer, is display-only and left out).
NullPackageData == [name |-> "null"]
PackageData(info) == [name |-> info]

\* An invocation of fetchPackageData suspended at an await: the call it
\* waits for (pc), the package name that call was made with (request; ""
\* for getDownloadStats, whose answer the model does not keep) and its
\* const packageInfo ("" before getPackageInfo has answered). runs is the
\* bag of them.
Run(pc, request, packageInfo) ==
    [pc |-> pc, request |-> request, packageInfo |-> packageInfo]

Resume(run, next) == (runs (-) SetToBag({run})) (+) SetToBag({next})
Return(run) == runs (-) SetToBag({run})

\* ------------------------------------------------------- fetchPackageData

\* The synchronous start of fetchPackageData for a name that is not blank,
\* up to its first await.
StartRun(name) ==
    /\ BagCardinality(runs) < MaxRuns
    /\ error' = ""
    /\ isLoading' = TRUE
    /\ packageData' = NullPackageData
    /\ versionsData' = <<>>
    /\ runs' = runs (+) SetToBag({Run("getPackageInfo", name, "")})

\* form.packageName changes (typed, picked, or set through the v-model of
\* the parent); the watcher calls fetchPackageData when it is not blank.
SetPackageName(name) ==
    /\ name # formPackageName
    /\ formPackageName' = name
    /\ IF name # ""
       THEN StartRun(name)
       ELSE UNCHANGED <<versionsData, isLoading, error, packageData, runs>>
    /\ UNCHANGED filterVars

\* The form is submitted: fetchPackageData with the name as it is.
Submit ==
    /\ IF formPackageName = ""
       THEN /\ error' = "enterPackageName"
            /\ UNCHANGED <<versionsData, isLoading, packageData, runs>>
       ELSE StartRun(formPackageName)
    /\ UNCHANGED <<formPackageName, filterVars>>

\* getPackageInfo answers: the registry knows the name (the run keeps the
\* document and calls getDownloadStats) or the response is not OK, which
\* getPackageInfo throws (catch sets state.error, finally isLoading).
PackageInfoResponse(run) ==
    /\ run.pc = "getPackageInfo"
    /\ IF run.request \in Published
       THEN /\ runs' = Resume(run, Run("getDownloadStats", "", run.request))
            /\ UNCHANGED <<error, isLoading>>
       ELSE /\ error' = "packageNotFound"
            /\ isLoading' = FALSE
            /\ runs' = Return(run)
    /\ UNCHANGED <<versionsData, packageData, formPackageName, filterVars>>

\* getDownloadStats answers (it never throws): the run sets
\* state.packageData and calls getVersionDownloads.
DownloadStatsResponse(run) ==
    /\ run.pc = "getDownloadStats"
    /\ packageData' = PackageData(run.packageInfo)
    /\ runs' = Resume(run, Run("getVersionDownloads", formPackageName,
                               run.packageInfo))
    /\ UNCHANGED <<versionsData, isLoading, error, formPackageName, filterVars>>

\* getVersionDownloads answers with the downloads of the name asked for, or
\* with {} when the request failed; the run maps and sorts the entries into
\* state.versionsData and reaches its finally block.
VersionDownloadsResponse(run) ==
    /\ run.pc = "getVersionDownloads"
    /\ \E ok \in BOOLEAN :
         versionsData' = IF ok /\ run.request \in Published
                         THEN processVersions(versionDownloadsOf(run.request))
                         ELSE processVersions(<<>>)
    /\ isLoading' = FALSE
    /\ runs' = Return(run)
    /\ UNCHANGED <<error, packageData, formPackageName, filterVars>>

\* ----------------------------------------------------------- the filters

\* The tags that occur in state.versionsData: the check boxes shown.
tagOptions == {versionsData[i].tag : i \in 1..Len(versionsData)}

\* The majors that occur in state.versionsData, 'unknown' left out (the
\* order of the check boxes is not modelled).
majorVersionOptions ==
    {getMajorVersion(versionsData[i].version) : i \in 1..Len(versionsData)}
        \ {"unknown"}

\* A check box of the tag filter is toggled.
ToggleTag(tag) ==
    /\ tag \in tagOptions
    /\ selectedTags' = IF tag \in selectedTags
                       THEN selectedTags \ {tag}
                       ELSE selectedTags \cup {tag}
    /\ UNCHANGED <<versionsData, selectedMajorVersions, threshold, fetchVars>>

\* A check box of the major-version filter is toggled.
ToggleMajorVersion(major) ==
    /\ major \in majorVersionOptions
    /\ selectedMajorVersions' = IF major \in selectedMajorVersions
                                THEN selectedMajorVersions \ {major}
                                ELSE selectedMajorVersions \cup {major}
    /\ UNCHANGED <<versionsData, selectedTags, threshold, fetchVars>>

\* The threshold slider is moved.
SetThreshold(percent) ==
    /\ percent # threshold
    /\ threshold' = percent
    /\ UNCHANGED <<versionsData, selectedTags, selectedMajorVersions, fetchVars>>

\* ------------------------------------------------------- specifications

\* The component after setup: nothing loaded, 'stable' selected, 90 %.
Init ==
    /\ versionsData = <<>>
    /\ selectedTags = {"stable"}
    /\ selectedMajorVersions = {}
    /\ threshold = 90
    /\ isLoading = FALSE
    /\ error = ""
    /\ packageData = NullPackageData
    /\ formPackageName = ""
    /\ runs = EmptyBag

Next ==
    \/ \E name \in PackageNames : SetPackageName(name)
    \/ Submit
    \/ \E run \in BagToSet(runs) : PackageInfoResponse(run)
    \/ \E run \in BagToSet(runs) : DownloadStatsResponse(run)
    \/ \E run \in BagToSet(runs) : VersionDownloadsResponse(run)
    \/ \E tag \in TagUniverse : ToggleTag(tag)
    \/ \E major \in MajorUniverse : ToggleMajorVersion(major)
    \/ \E percent \in Thresholds : SetThreshold(percent)

Spec == Init /\ [][Next]_vars

\* ---- the computed values over all responses ----

\* The entries of one response: up to MaxVersions distinct version strings,
\* in any order, with download counts of one scale.
ResponsesOf(downloads) ==
    LET E == {Entry(v, d) : v \in VersionStrings, d \in downloads}
    IN  UNION {{s \in [1..n -> E] :
                  \A i, j \in 1..n : s[i].version = s[j].version => i = j}
               : n \in 0..MaxVersions}

\* The response of the scenario: 3.0.0, 2.9.0 and 2.8.0 with 700, 200 and
\* 100 downloads.
ScenarioResponse ==
    <<Entry("3.0.0", 700), Entry("2.9.0", 200), Entry("2.8.0", 100)>>

Responses ==
    ResponsesOf(RoundDownloads) \cup ResponsesOf(OddDownloads) \cup {ScenarioResponse}

\* The component once a fetch of pkgA has completed, for every response the
\* registry can have given.
AggInit ==
    /\ versionsData \in {processVersions(entries) : entries \in Responses}
    /\ selectedTags = {"stable"}
    /\ selectedMajorVersions = {}
    /\ threshold = 90
    /\ isLoading = FALSE
    /\ error = ""
    /\ packageData = PackageData("pkgA")
    /\ formPackageName = "pkgA"
    /\ runs = EmptyBag

AggNext ==
    \/ \E tag \in TagUniverse : ToggleTag(tag)
    \/ \E major \in MajorUniverse : ToggleMajorVersion(major)
    \/ \E percent \in Thresholds : SetThreshold(percent)

AggSpec == AggInit /\ [][AggNext]_vars

\* ---- responses with a count that is no number ----

\* The counts of the well-formed records, and the malformed counts: null
\* and the strings "5" and "900".
MalformedDownloads == {5, 100}
MalformedCounts == {<<"null", 0>>, <<"string", 5>>, <<"string", 900>>}

\* Responses of up to MaxVersions records of which exactly one, at any
\* position, has a malformed count.
MalformedResponses ==
    {[i \in 1..Len(r) |-> IF i = k
                          THEN MalformedEntry(r[i].version, c[1], c[2])
                          ELSE r[i]] :
        <<r, k, c>> \in {t \in ResponsesOf(MalformedDownloads)
                                  \X (1..MaxVersions) \X MalformedCounts :
                            t[2] <= Len(t[1])}}

\* The component once a fetch has completed with such a response.
MalformedInit ==
    /\ versionsData \in {processVersions(entries) : entries \in MalformedResponses}
    /\ selectedTags = {"stable"}
    /\ selectedMajorVersions = {}
    /\ threshold = 90
    /\ isLoading = FALSE
    /\ error = ""
    /\ packageData = PackageData("pkgA")
    /\ formPackageName = "pkgA"
    /\ runs = EmptyBag

MalformedSpec == MalformedInit /\ [][AggNext]_vars

\* ---- packages with many versions ----

\* The response for a package with n versions, of 10, 20, ... downloads.
LongResponse(n) == [i \in 1..n |-> Entry(PatchVersion(i), 10 * i)]

\* The component once a fetch of a package with up to LongestResponse
\* versions has completed.
LongInit ==
    /\ versionsData \in {processVersions(LongResponse(n)) : n \in 0..LongestResponse}
    /\ selectedTags = {"stable"}
    /\ selectedMajorVersions = {}
    /\ threshold = 90
    /\ isLoading = FALSE
    /\ error = ""
    /\ packageData = PackageData("pkgA")
    /\ formPackageName = "pkgA"
    /\ runs = EmptyBag

LongSpec == LongInit /\ [][AggNext]_vars

\* ---- the percentages ----

\* Responses for the percentages: up to MaxVersions of three versions, with
\* 0, 100 or 200 downloads each (thirds have no finite binary expansion).
ShareVersions == {"3.0.0", "2.9.0", "not-a-version"}
ShareDownloads == {0, 100, 200}
ShareResponses ==
    LET E == {Entry(v, d) : v \in ShareVersions, d \in ShareDownloads}
    IN  UNION {{s \in [1..n -> E] :
                  \A i, j \in 1..n : s[i].version = s[j].version => i = j}
               : n \in 0..MaxVersions}

\* The component once a fetch has completed with such a response.
ShareInit ==
    /\ versionsData \in {processVersions(entries) : entries \in ShareResponses}
    /\ selectedTags = {"stable"}
    /\ selectedMajorVersions = {}
    /\ threshold = 90
    /\ isLoading = FALSE
    /\ error = ""
    /\ packageData = PackageData("pkgA")
    /\ formPackageName = "pkgA"
    /\ runs = EmptyBag

ShareNext ==
    \/ \E tag \in TagUniverse : ToggleTag(tag)
    \/ \E major \in MajorUniverse : ToggleMajorVersion(major)

ShareSpec == ShareInit /\ [][ShareNext]_vars

\* ---- the classification of versions ----

\* Responses of one or two of the version strings to classify, 100
\* downloads each.
ClassifyResponses ==
    {<<Entry(v, 100)>> : v \in ClassifyVersions}
        \cup {<<Entry(v, 100), Entry(w, 100)>> :
                 <<v, w>> \in {p \in ClassifyVersions \X ClassifyVersions : p[1] # p[2]}}

\* The component once a fetch has completed with such a response.
ClassifyInit ==
    /\ versionsData \in {processVersions(entries) : entries \in ClassifyResponses}
    /\ selectedTags = {"stable"}
    /\ selectedMajorVersions = {}
    /\ threshold = 90
    /\ isLoading = FALSE
    /\ error = ""
    /\ packageData = PackageData("pkgA")
    /\ formPackageName = "pkgA"
    /\ runs = EmptyBag

ClassifySpec == ClassifyInit /\ [][AggNext]_vars

\* ------------------------------------------------------------------ claims

\* Helpers of the claims, for a list f of ranked entries and the total t of
\* the filtered set it was made from.
RanksOf(f) == 1..Len(f)
\* The cumulative share at rank i meets or exceeds percent % (exactly).
MeetsShare(f, t, percent, i) == f[i].cumulativeDownloads * 100 >= t * percent
\* cumulativeDownloads <= thresholdAbsolute at rank i, with
\* thresholdAbsolute = t * percent / 100.
WithinAbsolute(f, t, percent, i) == f[i].cumulativeDownloads * 100 <= t * percent
\* The least element of a non-empty set of ranks.
Least(S) == CHOOSE i \in S : \A j \in S : i <= j

\* C1: the marked entries are exactly the shortest prefix, in rank order,
\* whose cumulative share of the downloads meets or exceeds the threshold
\* percentage: the entry that lands exactly on the threshold is the last one
\* marked. For downloads 700, 200, 100 and threshold 90 the marks are
\* true, true, false.
C1_ShortestPrefixMeetingShare ==
    LET f == formattedVersionsData
        t == filteredTotalDownloads
        Meeting == {i \in RanksOf(f) : MeetsShare(f, t, threshold, i)}
    IN  t > 0 =>
          \A i \in RanksOf(f) : f[i].isWithin90Threshold <=> i <= Least(Meeting)

\* C2: with thresholdAbsolute = totalDownloads * thresholdPercent / 100, in
\* rank order every entry with cumulativeDownloads <= thresholdAbsolute is
\* marked, the first entry over thresholdAbsolute is marked too, every entry
\* after that one is unmarked, and no marked entry follows an unmarked one.
C2_ThresholdScan ==
    LET f == formattedVersionsData
        t == filteredTotalDownloads
        Exceeding == {i \in RanksOf(f) : ~WithinAbsolute(f, t, threshold, i)}
    IN  /\ \A i \in RanksOf(f) :
              WithinAbsolute(f, t, threshold, i) => f[i].isWithin90Threshold
        /\ Exceeding # {} =>
              /\ f[Least(Exceeding)].isWithin90Threshold
              /\ \A i \in RanksOf(f) :
                    i > Least(Exceeding) => ~f[i].isWithin90Threshold
        /\ \A i, j \in RanksOf(f) :
              i < j /\ f[j].isWithin90Threshold => f[i].isWithin90Threshold

\* C3: with totalDownloads > 0 and a threshold under 100 exactly one entry is
\* marked through the boundary rule; at threshold 100 none is, and every
\* entry of the filtered set is marked.
C3_OneBoundaryEntry ==
    LET f == formattedVersionsData
        t == filteredTotalDownloads
        ViaBoundary == {i \in RanksOf(f) : f[i].branch = "boundary"}
    IN  /\ t > 0 /\ threshold < 100 => Cardinality(ViaBoundary) = 1
        /\ threshold = 100 =>
              ViaBoundary = {} /\ \A i \in RanksOf(f) : f[i].isWithin90Threshold

\* C3 witness: under a threshold the slider was moved to, an entry marked
\* by accumulation, then the one marked through the boundary rule, then an
\* entry with downloads that is not marked.
C3_Witness ==
    LET f == formattedVersionsData
    IN  /\ Len(f) = 3
        /\ threshold = 70
        /\ f[1].branch = "accumulation"
        /\ f[2].branch = "boundary"
        /\ f[3].downloads > 0
        /\ f[3].branch = "none"

\* C4: when thresholdAbsolute is 0 (every entry of a non-empty filtered set
\* has 0 downloads), only the first ranked entry is marked, through the
\* boundary rule, and every other entry is unmarked.
C4_ZeroThresholdMarksFirstOnly ==
    LET f == formattedVersionsData
        t == filteredTotalDownloads
    IN  Len(f) > 0 /\ t * threshold = 0 =>
          /\ f[1].isWithin90Threshold
          /\ f[1].branch = "boundary"
          /\ \A i \in RanksOf(f) : i > 1 => ~f[i].isWithin90Threshold

\* The indices of state.versionsData whose record passes both filters.
Kept ==
    {k \in 1..Len(versionsData) :
        /\ selectedTags = {} \/ parseVersionTag(versionsData[k].version) \in selectedTags
        /\ selectedMajorVersions = {}
              \/ getMajorVersion(versionsData[k].version) \in selectedMajorVersions}

\* C5: the ranked list gives rank i to its i-th entry, with as many entries
\* as the filtered set has records (ranks 1..N, no gaps or repeats), and
\* downloads do not increase with the rank.
C5_RanksAndOrder ==
    LET f == formattedVersionsData
    IN  /\ Len(f) = Cardinality(Kept)
        /\ \A i \in RanksOf(f) : f[i].rank = i
        /\ \A i \in RanksOf(f) : i < Len(f) => f[i].downloads >= f[i + 1].downloads

\* C5 witness: a fetch has completed and a filter now keeps some but not all
\* of its records, with different download counts.
C5_Witness ==
    LET f == formattedVersionsData
    IN  /\ BagCardinality(runs) = 0
        /\ Len(f) >= 2
        /\ Len(f) < Len(versionsData)
        /\ f[1].downloads > f[2].downloads

RECURSIVE SumTo(_, _)
\* The downloads of ranks 1..i of a list added up.
SumTo(f, i) == IF i = 0 THEN 0 ELSE SumTo(f, i - 1) + f[i].downloads

\* C6: cumulativeDownloads at rank i is the sum of the downloads of ranks
\* 1..i, does not decrease with the rank, and at the last rank equals the
\* total downloads of the filtered set.
C6_CumulativeIsPrefixSum ==
    LET f == formattedVersionsData
        d == filteredData
    IN  /\ \A i \in RanksOf(f) : f[i].cumulativeDownloads = SumTo(f, i)
        /\ \A i \in RanksOf(f) :
              i < Len(f) => f[i].cumulativeDownloads <= f[i + 1].cumulativeDownloads
        /\ Len(f) > 0 => f[Len(f)].cumulativeDownloads = SumTo(d, Len(d))

\* C6 witness: three ranked entries with downloads each.
C6_Witness ==
    LET f == formattedVersionsData
    IN  /\ Len(f) = 3
        /\ f[3].downloads > 0
        /\ f[3].cumulativeDownloads > f[2].cumulativeDownloads
        /\ f[2].cumulativeDownloads > f[1].cumulativeDownloads

\* C7: filtering keeps exactly the records whose tag is selected (all when
\* no tag is) and whose major label is selected (all when no major is), in
\* their original relative order.
C7_FilterKeepsExactly ==
    LET d == filteredData
        kept == Kept
    IN  /\ Len(d) = Cardinality(kept)
        /\ \A k \in kept :
              d[Cardinality({j \in kept : j <= k})] = versionsData[k]

\* C7 witness: both filters are set, and records are dropped from between
\* records that are kept.
C7_Witness ==
    /\ selectedTags # {}
    /\ selectedMajorVersions # {}
    /\ Len(versionsData) = 3
    /\ Kept = {1, 3}
    /\ filteredData = <<versionsData[1], versionsData[3]>>

\* Version a has lower precedence than version b: by semantic-version
\* precedence for parsable strings, by string order for unparsable ones.
LowerVersion(a, b) ==
    IF IsNull(semverParse(a)) /\ IsNull(semverParse(b))
    THEN LocaleRank(a) < LocaleRank(b)
    ELSE ~IsNull(semverParse(a)) /\ ~IsNull(semverParse(b))
            /\ semverCompare(a, b) < 0

\* C8: the summary reports every major line that has a marked entry exactly
\* once; the minimum version reported for a line is a marked entry of that
\* line than which no marked entry of the line is lower, and
\* totalVersionsInMajor is the number of marked entries of the line.
C8_SummaryMinimumPerMajor ==
    LET f == formattedVersionsData
        w == within90Of(f)
        summary == summaryItems(f)
        Majors == {getMajorVersion(w[i].version) : i \in 1..Len(w)}
        Line(major) == {i \in 1..Len(w) : getMajorVersion(w[i].version) = major}
    IN  /\ Len(w) > 0 => summary # {}
        /\ \A items \in summary :
              /\ Len(items) = Cardinality(Majors)
              /\ \A major \in Majors : \E k \in 1..Len(items) : items[k].major = major
              /\ \A k \in 1..Len(items) :
                    /\ \E i \in Line(items[k].major) : w[i] = items[k].minVersion
                    /\ \A i \in Line(items[k].major) :
                          ~LowerVersion(w[i].version, items[k].minVersion.version)
                    /\ items[k].totalVersionsInMajor = Cardinality(Line(items[k].major))

\* C8 witness: two lines are reported, and the minimum of the first is a
\* prerelease that has fewer downloads than its release.
C8_Witness ==
    LET w == within90Items
    IN  /\ Len(w) = 3
        /\ w[1].version = "3.0.0"
        /\ w[2].version = "3.0.0-beta.1"
        /\ w[3].version = "2.9.0"
        /\ \E items \in minVersionFor90Threshold :
              /\ Len(items) = 2
              /\ items[1].minVersion.version = "3.0.0-beta.1"
              /\ items[1].totalVersionsInMajor = 2

\* C9: the groups of the summary are in descending order of major number,
\* also when a group of unparsable versions ("unknown") is among them: of
\* two groups with numeric majors the greater comes first.
C9_MajorsDescending ==
    \A items \in minVersionFor90Threshold :
       \A i, j \in 1..Len(items) :
          (/\ i < j
           /\ parseIntMajor(items[i].major) # NaN
           /\ parseIntMajor(items[j].major) # NaN)
             => parseIntMajor(items[i].major) > parseIntMajor(items[j].major)

\* The downloads of the records of the filtered data that are version v or
\* newer than it (higher semantic-version precedence).
RECURSIVE NewerDownloads(_, _)
NewerDownloads(d, v) ==
    IF d = <<>> THEN 0
    ELSE (IF Head(d).version = v \/ LowerVersion(v, Head(d).version)
          THEN Head(d).downloads ELSE 0) + NewerDownloads(Tail(d), v)

\* C10: each version reported as the minimum version for the threshold is a
\* golden version: its downloads plus those of all newer versions of the
\* filtered set are at least threshold % of the total of the filtered set.
C10_MinimumIsGoldenVersion ==
    LET d == filteredData
        t == filteredTotalDownloads
    IN  \A items \in minVersionFor90Threshold :
           \A k \in 1..Len(items) :
              ~IsNull(items[k].minVersion.parsedVersion) =>
                 NewerDownloads(d, items[k].minVersion.version) * 100 >= t * threshold

\* The keywords of the tag classification, in the order of the claim.
TagKeywords == <<"alpha", "beta", "rc", "canary", "next", "dev", "snapshot">>

\* The tag and the major label C11 gives a version string.
ClaimedTag(version) ==
    LET parsed == semverParse(version)
        first == parsed.prerelease[1]
        hits == {k \in DOMAIN TagKeywords : Includes(first.str, TagKeywords[k])}
    IN  IF IsNull(parsed) THEN "invalid"
        ELSE IF parsed.prerelease = <<>> THEN "stable"
        ELSE IF first.isNum \/ hits = {} THEN "prerelease"
        ELSE TagKeywords[Least(hits)]

ClaimedMajor(version) ==
    LET parsed == semverParse(version)
    IN  IF IsNull(parsed) THEN "unknown" ELSE MajorLabel(parsed.major)

RecordsOfQuery(name) ==
    IF name \in Published
    THEN {processVersions(versionDownloadsOf(name)), processVersions(<<>>)}
    ELSE {processVersions(<<>>)}

\* C12: once every fetchPackageData run has completed, the records being
\* ranked are those of the most recently started query (the one for the
\* current package name), whatever the order of the responses.
C12_LatestQueryWins ==
    runs = EmptyBag /\ formPackageName # "" =>
        versionsData \in RecordsOfQuery(formPackageName)

\* The records of versionsData with every malformed count replaced by the
\* number 0, as fetchPackageData would have sorted them.
AsIfZero(data) ==
    sortByDownloads([i \in 1..Len(data) |->
        IF data[i].kind = "number" THEN data[i]
        ELSE [data[i] EXCEPT !.kind = "number", !.downloads = 0]])

\* C13: with a record whose count is malformed or missing, the total, and at
\* every rank the cumulative downloads and the threshold mark, are what
\* they would be if the count of that record were 0.
C13_MalformedCountsAsZero ==
    LET f == formattedVersionsData
        z == formatVersions(AsIfZero(versionsData), selectedTags,
                            selectedMajorVersions, threshold)
        tz == reduceDownloads(filterVersions(AsIfZero(versionsData), selectedTags,
                                             selectedMajorVersions), JsNumber(0)).n
    IN  /\ filteredTotalDownloads = tz
        /\ Len(f) = Len(z)
        /\ \A i \in 1..Len(f) :
              /\ f[i].cumulativeDownloads = z[i].cumulativeDownloads
              /\ f[i].isWithin90Threshold = z[i].isWithin90Threshold

RECURSIVE SumShares(_, _)
\* The percentages of ranks 1..i added up in rank order, in doubles.
SumShares(p, i) ==
    IF i = 0 THEN DoubleZero
    ELSE jsAddDouble(SumShares(p, i - 1), p[i].percentage)

\* The doubles 100 - 2^-40 and 100 + 2^-40.
HundredMinus ==
    [zero |-> FALSE,
     bits |-> <<1, 1, 0, 0, 0, 1, 1>> \o [i \in 1..40 |-> 1] \o Zeros(6),
     exp |-> -46]
HundredPlus ==
    [zero |-> FALSE,
     bits |-> <<1, 1, 0, 0, 1, 0, 0>> \o Zeros(39) \o <<1>> \o Zeros(6),
     exp |-> -46]

\* What C14 says of the percentages p of a filtered set with total t, but
\* for the sum of the shares.
SharesInRange(p, t) ==
    /\ t = 0 =>
          \A i \in DOMAIN p :
              p[i].percentage = DoubleZero /\ p[i].cumulativePercentage = DoubleZero
    /\ t > 0 =>
          /\ \A i \in DOMAIN p :
                /\ DoubleLeq(p[i].percentage, DoubleHundred)
                /\ DoubleLeq(p[i].cumulativePercentage, DoubleHundred)
          /\ p[Len(p)].cumulativePercentage = DoubleHundred

C15_AtMostTop50 == Len(formattedVersionsData) <= TopLimit

\* Nothing to rank: no records, no ranked entries and the summary "no data"
\* (minVersionFor90Threshold is null).
NoData ==
    /\ versionsData = <<>>
    /\ formattedVersionsData = <<>>
    /\ minVersionFor90Threshold = {}

\* C16: when getPackageInfo fails, the run makes no further request and
\* ends with the error message set, packageData null, nothing to rank and
\* isLoading false.
C16_PackageInfoFailure ==
    [][\A run \in BagToSet(runs) :
          PackageInfoResponse(run) /\ run.request \notin Published =>
              /\ runs' = Return(run)
              /\ error' # ""
              /\ packageData' = NullPackageData
              /\ NoData'
              /\ isLoading' = FALSE]_vars

\* C17: a failure of getVersionDownloads never surfaces: the run ends with
\* no error, packageData set from its package info, and nothing to rank.
C17_VersionDownloadsFailure ==
    [][\A run \in BagToSet(runs) :
          VersionDownloadsResponse(run) /\ versionsData' = <<>> =>
              /\ runs' = Return(run)
              /\ error' = ""
              /\ packageData' = PackageData(run.packageInfo)
              /\ NoData'
              /\ isLoading' = FALSE]_vars

\* C18: isLoading is true whenever a fetchPackageData run is in flight,
\* overlapping runs included; it is false only when none is.
C18_LoadingWhileInFlight == runs # EmptyBag => isLoading = TRUE

\* C19: with no run in flight, a package header and version records that
\* are both present are those of one package, and the error of a run is
\* not shown next to a header or records.
C19_OneRunDisplayed ==
    runs = EmptyBag =>
        /\ packageData # NullPackageData /\ versionsData # <<>> =>
               versionsData = processVersions(versionDownloadsOf(packageData.name))
        /\ error = "packageNotFound" =>
               packageData = NullPackageData /\ versionsData = <<>>

====
